---- MODULE Spec2Model ----
(***************************************************************************)
(* gh-helper: the bounded parallel executor (ExecuteParallel,              *)
(* ExecuteParallelWithErrors) and the review/check wait loop               *)
(* (waitForReviews, waitForReviewsOnly, waitForReviewsAndChecks).          *)
(*                                                                         *)
(* Go slices are modelled as functions over 0..len-1 so that indices are   *)
(* the source's indices.  Review timestamps (RFC 3339 strings the code     *)
(* compares with > and ==) are modelled as integers with the same order.   *)
(***************************************************************************)
EXTENDS Integers, FiniteSets, Sequences, TLC

\* ------------------------------------------------------------------ bounds
MaxItems == 3
MaxConc == 2
MaxReviews == 2
MaxTimeout == 2
MaxPRs == 2
MaxThreads == 3

\* ------------------------------------------------------- executor: values
Nil == "nil"
Err == "err"
NoItem == 0
NoOut == [Result |-> 0, Error |-> "noout"]
NoHolder == -1

\* fnRet of an invocation that did not return: fn panicked
PanicOut == [Result |-> 0, Error |-> "panic"]

ItemVals == {1, 2}

\* What one invocation fn(item) may return: the item's tag without an error, the
\* zero value with an error, or a partial value together with an error.
FnOutcomes(item) ==
  { [Result |-> item, Error |-> Nil],
    [Result |-> 0,    Error |-> Err],
    [Result |-> item, Error |-> Err] }

\* mutant of ReplyOutcomes: the thread is resolved before the reply is posted,
\* so a failed reply can leave it resolved
ReplyOutcomesResolveFirst(item) ==
  { [Result |-> [ThreadID |-> item, Status |-> st, Resolved |-> rs],
     Error |-> Nil] : st \in {"success", "failed"}, rs \in BOOLEAN }

\* What the closure replyToThread hands to ExecuteParallel may return for one
\* thread: always a nil error, with a replyResult whose Status is "failed" when
\* the mutation failed, and whose Resolved is set only after a successful reply
\* (and then only with --resolve and a successful ResolveThread).
ReplyOutcomes(item) ==
  { [Result |-> [ThreadID |-> item, Status |-> "failed", Resolved |-> FALSE],
     Error |-> Nil] }
  \cup
  { [Result |-> [ThreadID |-> item, Status |-> "success", Resolved |-> rs],
     Error |-> Nil] : rs \in BOOLEAN }

\* fn as passed by the caller: the bulk reply closure, or any function
FnResults(v, item) ==
  IF v = "reply" THEN ReplyOutcomes(item) ELSE FnOutcomes(item)

VARIABLES
  variant,        \* "simple" (ExecuteParallel), "withErrors" (ExecuteParallelWithErrors)
                  \* or "reply" (ExecuteParallel as called by replyToThread)
  items,          \* the input slice
  parallel,       \* the parallel argument
  maxConcurrent,  \* the maxConcurrent argument
  results,        \* the results slice
  mainPc,         \* position of the calling goroutine
  loopI,          \* index of the range loop of the calling goroutine
  gpc,            \* position of the goroutine spawned for each index
  gItem,          \* the item argument each goroutine was spawned with
  fnArg,          \* per index, the item fn was invoked with (NoItem: not invoked)
  fnRet,          \* per index, what that invocation returned (NoOut: not returned)
  sem,            \* number of tokens in the sem channel
  mu,             \* index of the goroutine holding mu, or NoHolder
  wg              \* the WaitGroup counter

execVars == <<variant, items, parallel, maxConcurrent, results, mainPc, loopI,
              gpc, gItem, fnArg, fnRet, sem, mu, wg>>

VARIABLES
  excludeReviews,     \* the --exclude-reviews flag
  excludeChecks,      \* the --exclude-checks flag
  requestReview,      \* the global requestReview flag (--request-review)
  savedRequestReview, \* originalRequestReview, restored by the deferred function
  comments,           \* number of "/gemini review" comments posted
  marker,             \* content of the pr-<n>-last-review.json file, or NoMarker
  markerWrites,       \* number of saveReviewState calls that wrote the file
  lastState,          \* lastState of waitForReviewsOnly
  reviewsReady,       \* the reviewsReady local
  checksComplete,     \* the checksComplete local
  routine,            \* which wait function runs: "none", "reviewsOnly", "combined"
  wpc,                \* position of the main goroutine of the wait
  outcome,            \* how the wait ended ("Polling" while it has not)
  retErr,             \* the error waitForReviews returned (Nil: none)
  exitStatus,         \* the process exit status (NoExit while running)
  elapsed,            \* time.Since(startTime), in ticks
  timeout,            \* effectiveTimeout, in ticks
  response,           \* the last response FetchPRData returned, or NoResponse
  handlerInstalled,   \* signal.Notify was called and the handler goroutine runs
  sigPending,         \* the signal delivered to sigChan and not yet handled
  sigAt,              \* position of the main goroutine when the signal arrived
  guidance,           \* the handler goroutine printed its termination message
  markerList          \* the review list whose last element was saved as the marker

waitVars == <<excludeReviews, excludeChecks, requestReview, savedRequestReview,
              comments, marker, markerWrites, lastState, reviewsReady,
              checksComplete, routine, wpc, outcome, retErr, exitStatus, elapsed,
              timeout, response, handlerInstalled, sigPending, sigAt, guidance,
              markerList>>

VARIABLES
  apc,                   \* position in analyzePRs
  TotalPRs,              \* analysis.TotalPRs = len(prs)
  aI,                    \* index of the range loop over prs
  aPr,                   \* the pr of the latest loop iteration
  MissingClassification, \* analysis.MissingClassification (PR numbers)
  ShouldIgnore,          \* analysis.ShouldIgnore (PR numbers)
  InconsistentLabeling,  \* analysis.InconsistentLabeling (PR numbers)
  Summary                \* analysis.Summary

analyzeVars == <<apc, TotalPRs, aI, aPr, MissingClassification, ShouldIgnore,
                 InconsistentLabeling, Summary>>

VARIABLES
  fpc,                \* position in outputFetch
  Threads,            \* data.Threads
  includeThreads,     \* the includeThreads argument
  pageTotal,          \* data.ThreadPageInfo.TotalCount
  fI,                 \* position of the range loop in data.Threads (from 1)
  unresolvedCount,    \* the unresolvedCount local
  unresolvedThreads,  \* the unresolvedThreads local
  output              \* the reviewThreads entry of the output map

fetchVars == <<fpc, Threads, includeThreads, pageTotal, fI, unresolvedCount,
               unresolvedThreads, output>>

toolVars == <<analyzeVars, fetchVars>>

vars == <<execVars, waitVars, toolVars>>

\* ------------------------------------------- analyzePRs, outputFetch: values
PRNumbers == {1, 2}

\* A PR as analyzePRs sees it: its number and the outcomes of the tests the loop
\* body makes on its labels, title and body.  labelClass is "documentation",
\* another classification label, or none; a title starting with "docs:" always
\* gets a suggestion from suggestClassificationLabel.
PRs ==
  { pr \in [Number : PRNumbers, hasIgnore : BOOLEAN,
            labelClass : {"none", "documentation", "other"},
            docsPrefix : BOOLEAN, indicator : BOOLEAN, userFacing : BOOLEAN,
            suggests : BOOLEAN] :
      pr.docsPrefix => pr.suggests }

NoPR ==
  [Number |-> 0, hasIgnore |-> FALSE, labelClass |-> "none", docsPrefix |-> FALSE,
   indicator |-> FALSE, userFacing |-> FALSE, suggests |-> FALSE]

NoSummary == [WellLabeled |-> -1, NeedsAttention |-> -1, ReadyForRelease |-> FALSE]

AnalyzeIdle ==
  /\ apc = "idle"
  /\ TotalPRs = 0
  /\ aI = 0
  /\ aPr = NoPR
  /\ MissingClassification = <<>>
  /\ ShouldIgnore = <<>>
  /\ InconsistentLabeling = <<>>
  /\ Summary = NoSummary

ThreadIDs == {1, 2}

ThreadData == [ID : ThreadIDs, IsResolved : BOOLEAN]

ThreadLists == UNION { [1..n -> ThreadData] : n \in 0..MaxThreads }

\* the reviewThreads entry when the output map has none
NoSection ==
  [present |-> FALSE, totalCount |-> 0, unresolvedCount |-> 0,
   unresolvedThreads |-> <<>>]

FetchIdle ==
  /\ fpc = "idle"
  /\ Threads = <<>>
  /\ includeThreads = FALSE
  /\ pageTotal = 0
  /\ fI = 1
  /\ unresolvedCount = 0
  /\ unresolvedThreads = <<>>
  /\ output = NoSection

ToolIdle == AnalyzeIdle /\ FetchIdle

\* ------------------------------------------------------ wait loop: values
NoMarker == [ID |-> "none", CreatedAt |-> 0]
NoResponse ==
  [reviews |-> <<>>, mergeable |-> "none", mergeStatus |-> "none", rollup |-> "none"]
NoExit == -1
NoSig == "nosig"

\* time.Sleep(30 * time.Second), in ticks of 15 seconds
SleepTicks == 2
\* how long one FetchPRData call may take, in ticks
FetchTicks == {0, 1}
\* os.Exit(130) of the signal handler goroutine
ExitInterrupted == 130
\* os.Exit(1) of main when rootCmd.Execute returns an error
ExitError == 1

ReviewIDs == {"R1", "R2"}
ReviewTimes == {1, 2}
Reviews == [ID : ReviewIDs, CreatedAt : ReviewTimes]

\* review lists of a response: at most MaxReviews reviews, each node id once
ReviewLists ==
  UNION { { l \in [1..n -> Reviews] :
              \A a, b \in 1..n : a # b => l[a].ID # l[b].ID } : n \in 0..MaxReviews }

Mergeables == {"MERGEABLE", "CONFLICTING", "UNKNOWN"}
MergeStatuses == {"CLEAN", "HAS_HOOKS", "BLOCKED"}
NoRollup == "norollup"
RollupStates == {"SUCCESS", "FAILURE", "ERROR", "PENDING", "EXPECTED"}

\* what one successful FetchPRData call can return
Responses ==
  [reviews : ReviewLists, mergeable : Mergeables, mergeStatus : MergeStatuses,
   rollup : RollupStates \cup {NoRollup}]

Markers == Reviews \cup {NoMarker}

WaitIdle ==
  /\ excludeReviews = FALSE
  /\ excludeChecks = FALSE
  /\ requestReview = FALSE
  /\ savedRequestReview = FALSE
  /\ comments = 0
  /\ marker = NoMarker
  /\ markerWrites = 0
  /\ lastState = NoMarker
  /\ reviewsReady = FALSE
  /\ checksComplete = FALSE
  /\ routine = "none"
  /\ wpc = "idle"
  /\ outcome = "Polling"
  /\ retErr = Nil
  /\ exitStatus = NoExit
  /\ elapsed = 0
  /\ timeout = 0
  /\ response = NoResponse
  /\ handlerInstalled = FALSE
  /\ sigPending = NoSig
  /\ sigAt = "none"
  /\ guidance = FALSE
  /\ markerList = <<>>

Len0(s) == Cardinality(DOMAIN s)
Idx(s) == DOMAIN s

\* make([]R, n) and make([]ParallelResult[R], n): n zero values
ZeroResult(v) ==
  IF v = "simple" THEN 0
  ELSE IF v = "reply" THEN [ThreadID |-> 0, Status |-> "", Resolved |-> FALSE]
  ELSE [Index |-> 0, Result |-> 0, Error |-> Nil]

\* mutant of StoredValue: the Index field is left at its zero value
StoredValueNoIndex(v, idx, out) ==
  IF v = "simple" THEN out.Result
  ELSE [Index |-> 0, Result |-> out.Result, Error |-> out.Error]

\* mutant of StoredValue: the simple variant stores the zero value on an error
StoredValueZeroOnError(v, idx, out) ==
  IF v = "simple" THEN (IF out.Error = Err THEN 0 ELSE out.Result)
  ELSE [Index |-> idx, Result |-> out.Result, Error |-> out.Error]

\* the value stored for index idx from fn's return (result, err)
StoredValue(v, idx, out) ==
  IF v \in {"simple", "reply"} THEN out.Result
  ELSE [Index |-> idx, Result |-> out.Result, Error |-> out.Error]

\* mutant of UseSequential: && in place of the first ||
UseSequentialAnd(par, maxc, n) == (~par /\ maxc <= 1) \/ n <= 1

\* the guard of the sequential fast path
UseSequential(par, maxc, n) == ~par \/ maxc <= 1 \/ n <= 1

\* indices whose invocation of fn has started and not yet returned
Active == { i \in Idx(items) : fnArg[i] # NoItem /\ fnRet[i] = NoOut }

ExecInit ==
  /\ variant \in {"simple", "withErrors"}
  /\ items \in UNION { [0..(n - 1) -> ItemVals] : n \in 0..MaxItems }
  /\ parallel \in BOOLEAN
  /\ maxConcurrent \in 0..MaxConc
  /\ results = [i \in Idx(items) |-> ZeroResult(variant)]
  /\ mainPc = "entry"
  /\ loopI = 0
  /\ gpc = [i \in Idx(items) |-> "none"]
  /\ gItem = [i \in Idx(items) |-> NoItem]
  /\ fnArg = [i \in Idx(items) |-> NoItem]
  /\ fnRet = [i \in Idx(items) |-> NoOut]
  /\ sem = 0
  /\ mu = NoHolder
  /\ wg = 0
  /\ WaitIdle
  /\ ToolIdle

\* the branch on the fast-path condition
Enter ==
  /\ mainPc = "entry"
  /\ mainPc' = IF UseSequential(parallel, maxConcurrent, Len0(items))
               THEN "seq" ELSE "spawn"
  /\ UNCHANGED <<variant, items, parallel, maxConcurrent, results, loopI, gpc,
                 gItem, fnArg, fnRet, sem, mu, wg>>
  /\ UNCHANGED <<waitVars, toolVars>>

\* sequential loop: fn(item) is entered for items[loopI]
SeqCall ==
  /\ mainPc = "seq"
  /\ loopI < Len0(items)
  /\ fnArg' = [fnArg EXCEPT ![loopI] = items[loopI]]
  /\ mainPc' = "seqInFn"
  /\ UNCHANGED <<variant, items, parallel, maxConcurrent, results, loopI, gpc,
                 gItem, fnRet, sem, mu, wg>>
  /\ UNCHANGED <<waitVars, toolVars>>

\* mutant of SeqStore: the loop is left at the first error
SeqStoreAbortOnError ==
  /\ mainPc = "seqInFn"
  /\ \E out \in FnResults(variant, fnArg[loopI]) :
       /\ fnRet' = [fnRet EXCEPT ![loopI] = out]
       /\ results' = [results EXCEPT ![loopI] = StoredValue(variant, loopI, out)]
       /\ loopI' = IF out.Error = Nil THEN loopI + 1 ELSE Len0(items)
  /\ mainPc' = "seq"
  /\ UNCHANGED <<variant, items, parallel, maxConcurrent, gpc, gItem, fnArg,
                 sem, mu, wg>>
  /\ UNCHANGED <<waitVars, toolVars>>

\* sequential loop: fn returns and the result is stored at results[i]
SeqStore ==
  /\ mainPc = "seqInFn"
  /\ \E out \in FnResults(variant, fnArg[loopI]) :
       /\ fnRet' = [fnRet EXCEPT ![loopI] = out]
       /\ results' = [results EXCEPT ![loopI] = StoredValue(variant, loopI, out)]
  /\ loopI' = loopI + 1
  /\ mainPc' = "seq"
  /\ UNCHANGED <<variant, items, parallel, maxConcurrent, gpc, gItem, fnArg,
                 sem, mu, wg>>
  /\ UNCHANGED <<waitVars, toolVars>>

\* sequential loop: fn panics; nothing in the executor recovers, the panic
\* leaves it and the later items are never invoked
SeqPanic ==
  /\ mainPc = "seqInFn"
  /\ fnRet' = [fnRet EXCEPT ![loopI] = PanicOut]
  /\ mainPc' = "crashed"
  /\ UNCHANGED <<variant, items, parallel, maxConcurrent, results, loopI, gpc,
                 gItem, fnArg, sem, mu, wg>>
  /\ UNCHANGED <<waitVars, toolVars>>

\* sequential loop exhausted: return results
SeqReturn ==
  /\ mainPc = "seq"
  /\ loopI >= Len0(items)
  /\ mainPc' = "returned"
  /\ UNCHANGED <<variant, items, parallel, maxConcurrent, results, loopI, gpc,
                 gItem, fnArg, fnRet, sem, mu, wg>>
  /\ UNCHANGED <<waitVars, toolVars>>

\* mutant of Spawn: a goroutine is created only while fewer than maxConcurrent
\* goroutines are unfinished
SpawnGated ==
  /\ mainPc = "spawn"
  /\ loopI < Len0(items)
  /\ Cardinality({ j \in Idx(items) :
                     gpc[j] \in {"waiting", "running", "returned", "locked",
                                 "stored"} }) < maxConcurrent
  /\ wg' = wg + 1
  /\ gpc' = [gpc EXCEPT ![loopI] = "waiting"]
  /\ gItem' = [gItem EXCEPT ![loopI] = items[loopI]]
  /\ loopI' = loopI + 1
  /\ UNCHANGED <<variant, items, parallel, maxConcurrent, results, mainPc,
                 fnArg, fnRet, sem, mu>>
  /\ UNCHANGED <<waitVars, toolVars>>

\* parallel loop: wg.Add(1); go func(idx, item){...}(i, item)
Spawn ==
  /\ mainPc = "spawn"
  /\ loopI < Len0(items)
  /\ wg' = wg + 1
  /\ gpc' = [gpc EXCEPT ![loopI] = "waiting"]
  /\ gItem' = [gItem EXCEPT ![loopI] = items[loopI]]
  /\ loopI' = loopI + 1
  /\ UNCHANGED <<variant, items, parallel, maxConcurrent, results, mainPc,
                 fnArg, fnRet, sem, mu>>
  /\ UNCHANGED <<waitVars, toolVars>>

\* parallel loop exhausted: proceed to wg.Wait()
SpawnDone ==
  /\ mainPc = "spawn"
  /\ loopI >= Len0(items)
  /\ mainPc' = "wait"
  /\ UNCHANGED <<variant, items, parallel, maxConcurrent, results, loopI, gpc,
                 gItem, fnArg, fnRet, sem, mu, wg>>
  /\ UNCHANGED <<waitVars, toolVars>>

\* mutant of Acquire: the send on sem never blocks
AcquireUnbounded(i) ==
  /\ gpc[i] = "waiting"
  /\ sem' = sem + 1
  /\ gpc' = [gpc EXCEPT ![i] = "running"]
  /\ fnArg' = [fnArg EXCEPT ![i] = gItem[i]]
  /\ UNCHANGED <<variant, items, parallel, maxConcurrent, results, mainPc,
                 loopI, gItem, fnRet, mu, wg>>
  /\ UNCHANGED <<waitVars, toolVars>>

\* goroutine: sem <- struct{}{} (blocks while the channel is full), then fn(item)
\* is entered
Acquire(i) ==
  /\ gpc[i] = "waiting"
  /\ sem < maxConcurrent
  /\ sem' = sem + 1
  /\ gpc' = [gpc EXCEPT ![i] = "running"]
  /\ fnArg' = [fnArg EXCEPT ![i] = gItem[i]]
  /\ UNCHANGED <<variant, items, parallel, maxConcurrent, results, mainPc,
                 loopI, gItem, fnRet, mu, wg>>
  /\ UNCHANGED <<waitVars, toolVars>>

\* goroutine: fn returns (result, err)
FnReturn(i) ==
  /\ gpc[i] = "running"
  /\ \E out \in FnResults(variant, fnArg[i]) : fnRet' = [fnRet EXCEPT ![i] = out]
  /\ gpc' = [gpc EXCEPT ![i] = "returned"]
  /\ UNCHANGED <<variant, items, parallel, maxConcurrent, results, mainPc,
                 loopI, gItem, fnArg, sem, mu, wg>>
  /\ UNCHANGED <<waitVars, toolVars>>

\* goroutine: fn panics; the deferred <-sem and wg.Done() run while the panic
\* unwinds the goroutine
FnPanic(i) ==
  /\ gpc[i] = "running"
  /\ fnRet' = [fnRet EXCEPT ![i] = PanicOut]
  /\ sem' = sem - 1
  /\ wg' = wg - 1
  /\ gpc' = [gpc EXCEPT ![i] = "panicked"]
  /\ UNCHANGED <<variant, items, parallel, maxConcurrent, results, mainPc,
                 loopI, gItem, fnArg, mu>>
  /\ UNCHANGED <<waitVars, toolVars>>

\* the panic reaches the top of its goroutine unrecovered: the Go runtime ends
\* the process, whatever the other goroutines were doing
Crash ==
  /\ mainPc # "crashed"
  /\ \E i \in Idx(items) : gpc[i] = "panicked"
  /\ mainPc' = "crashed"
  /\ gpc' = [i \in Idx(items) |-> IF gpc[i] = "panicked" THEN "panicked" ELSE "dead"]
  /\ UNCHANGED <<variant, items, parallel, maxConcurrent, results, loopI,
                 gItem, fnArg, fnRet, sem, mu, wg>>
  /\ UNCHANGED <<waitVars, toolVars>>

\* mutant of Lock: the mutex excludes nobody
LockNoExclusion(i) ==
  /\ gpc[i] = "returned"
  /\ mu' = i
  /\ gpc' = [gpc EXCEPT ![i] = "locked"]
  /\ UNCHANGED <<variant, items, parallel, maxConcurrent, results, mainPc,
                 loopI, gItem, fnArg, fnRet, sem, wg>>
  /\ UNCHANGED <<waitVars, toolVars>>

\* goroutine: mu.Lock()
Lock(i) ==
  /\ gpc[i] = "returned"
  /\ mu = NoHolder
  /\ mu' = i
  /\ gpc' = [gpc EXCEPT ![i] = "locked"]
  /\ UNCHANGED <<variant, items, parallel, maxConcurrent, results, mainPc,
                 loopI, gItem, fnArg, fnRet, sem, wg>>
  /\ UNCHANGED <<waitVars, toolVars>>

\* mutant of Store: the slot is the number of results stored so far
StoreInCompletionOrder(i) ==
  /\ gpc[i] = "locked"
  /\ LET slot == Cardinality({ j \in Idx(items) : gpc[j] \in {"stored", "done"} })
     IN results' = [results EXCEPT ![slot] = StoredValue(variant, slot, fnRet[i])]
  /\ mu' = NoHolder
  /\ gpc' = [gpc EXCEPT ![i] = "stored"]
  /\ UNCHANGED <<variant, items, parallel, maxConcurrent, mainPc, loopI, gItem,
                 fnArg, fnRet, sem, wg>>
  /\ UNCHANGED <<waitVars, toolVars>>

\* goroutine: results[idx] = ...; mu.Unlock()
Store(i) ==
  /\ gpc[i] = "locked"
  /\ results' = [results EXCEPT ![i] = StoredValue(variant, i, fnRet[i])]
  /\ mu' = NoHolder
  /\ gpc' = [gpc EXCEPT ![i] = "stored"]
  /\ UNCHANGED <<variant, items, parallel, maxConcurrent, mainPc, loopI, gItem,
                 fnArg, fnRet, sem, wg>>
  /\ UNCHANGED <<waitVars, toolVars>>

\* goroutine: the deferred <-sem, then the deferred wg.Done()
Release(i) ==
  /\ gpc[i] = "stored"
  /\ sem' = sem - 1
  /\ wg' = wg - 1
  /\ gpc' = [gpc EXCEPT ![i] = "done"]
  /\ UNCHANGED <<variant, items, parallel, maxConcurrent, results, mainPc,
                 loopI, gItem, fnArg, fnRet, mu>>
  /\ UNCHANGED <<waitVars, toolVars>>

\* wg.Wait() returns when the counter is zero; return results
WaitReturn ==
  /\ mainPc = "wait"
  /\ wg = 0
  /\ mainPc' = "returned"
  /\ UNCHANGED <<variant, items, parallel, maxConcurrent, results, loopI, gpc,
                 gItem, fnArg, fnRet, sem, mu, wg>>
  /\ UNCHANGED <<waitVars, toolVars>>

ExecNext ==
  \/ Enter
  \/ SeqCall
  \/ SeqStore
  \/ SeqReturn
  \/ Spawn
  \/ SpawnDone
  \/ \E i \in Idx(items) : Acquire(i)
  \/ \E i \in Idx(items) : FnReturn(i)
  \/ \E i \in Idx(items) : Lock(i)
  \/ \E i \in Idx(items) : Store(i)
  \/ \E i \in Idx(items) : Release(i)
  \/ WaitReturn
  \/ SeqPanic
  \/ \E i \in Idx(items) : FnPanic(i)
  \/ Crash

SpecExec == ExecInit /\ [][ExecNext]_vars

\* threads reply <id>...: ExecuteParallel over the thread arguments (at least one)
ReplyInit ==
  /\ variant = "reply"
  /\ items \in UNION { [0..(n - 1) -> ItemVals] : n \in 1..MaxItems }
  /\ parallel \in BOOLEAN
  /\ maxConcurrent \in 0..MaxConc
  /\ results = [i \in Idx(items) |-> ZeroResult(variant)]
  /\ mainPc = "entry"
  /\ loopI = 0
  /\ gpc = [i \in Idx(items) |-> "none"]
  /\ gItem = [i \in Idx(items) |-> NoItem]
  /\ fnArg = [i \in Idx(items) |-> NoItem]
  /\ fnRet = [i \in Idx(items) |-> NoOut]
  /\ sem = 0
  /\ mu = NoHolder
  /\ wg = 0
  /\ WaitIdle
  /\ ToolIdle

SpecReply == ReplyInit /\ [][ExecNext]_vars

countSuccessful(rs) == Cardinality({ i \in DOMAIN rs : rs[i].Status = "success" })

countFailed(rs) == Cardinality({ i \in DOMAIN rs : rs[i].Status = "failed" })

countResolved(rs) == Cardinality({ i \in DOMAIN rs : rs[i].Resolved })

\* the "summary" object of the bulk output
BulkSummary(rs) ==
  [total |-> Cardinality(DOMAIN rs), successful |-> countSuccessful(rs),
   failed |-> countFailed(rs), resolved |-> countResolved(rs)]

\* ------------------------------------------------------ executor: properties

\* every spawned goroutine has finished
AllDone == \A i \in Idx(items) : gpc[i] = "done"

\* every invocation of fn so far that has ended has returned
NoPanic == \A i \in Idx(items) : fnRet[i] # PanicOut

\* C1: when ExecuteParallel has returned, results has one slot per item and
\* results[i] is the value that the invocation of fn on items[i] returned, on the
\* sequential and on the parallel path and for every order of completion.
C1_ResultsInInputOrder ==
  (variant = "simple" /\ mainPc = "returned") =>
    /\ DOMAIN results = DOMAIN items
    /\ \A i \in Idx(items) :
         /\ fnArg[i] = items[i]
         /\ fnRet[i] # NoOut
         /\ results[i] = fnRet[i].Result

\* ExecuteParallel returned on the parallel path with three pairwise different
\* results
C1_Witness ==
  /\ variant = "simple"
  /\ mainPc = "returned"
  /\ Len0(items) >= 3
  /\ AllDone
  /\ results[0] # results[1] /\ results[1] # results[2] /\ results[0] # results[2]

\* C2: on the parallel path (parallel, maxConcurrent = k > 1, more than k items)
\* at most k invocations of fn have started and not yet returned, in every state.
C2_ConcurrencyBound ==
  (parallel /\ maxConcurrent > 1 /\ Len0(items) > maxConcurrent) =>
    Cardinality(Active) <= maxConcurrent

\* k invocations are running while another goroutine waits at the semaphore
C2_Witness ==
  /\ parallel /\ maxConcurrent > 1 /\ Len0(items) > maxConcurrent
  /\ Cardinality(Active) = maxConcurrent
  /\ \E i \in Idx(items) : gpc[i] = "waiting"

\* C8: when ExecuteParallelWithErrors has returned and every invocation of fn
\* returned (a panic is the case of C21), it has exactly one entry per
\* item (none for an empty input), and entry i has Index = i and the (Result,
\* Error) pair that the invocation of fn on items[i] returned.
C8_EntriesMatchItems ==
  (variant = "withErrors" /\ mainPc = "returned" /\ NoPanic) =>
    /\ DOMAIN results = DOMAIN items
    /\ \A i \in Idx(items) :
         /\ fnArg[i] = items[i]
         /\ fnRet[i] # NoOut
         /\ results[i] = [Index |-> i, Result |-> fnRet[i].Result,
                          Error |-> fnRet[i].Error]

\* ExecuteParallelWithErrors returned on the parallel path with an error in a
\* later entry and none in the first
C8_Witness ==
  /\ variant = "withErrors"
  /\ mainPc = "returned"
  /\ Len0(items) >= 2
  /\ AllDone
  /\ results[0].Error = Nil
  /\ results[1].Error = Err /\ results[1].Index = 1

\* C9: with n >= 2 items and no panic, once fn has returned an error for some item the
\* executor can still take a step until it has returned, and when it has
\* returned every item was invoked, an entry has an error exactly when fn
\* returned one for that item, and every item whose invocation returned no error
\* has that invocation's result.
C9_ErrorIsolation ==
  (variant = "withErrors" /\ Len0(items) >= 2 /\ NoPanic
     /\ \E j \in Idx(items) : fnRet[j].Error = Err) =>
    IF mainPc = "returned"
    THEN \A i \in Idx(items) :
           /\ fnArg[i] = items[i]
           /\ fnRet[i] # NoOut
           /\ (results[i].Error = Err) <=> (fnRet[i].Error = Err)
           /\ fnRet[i].Error = Nil => results[i].Result = fnRet[i].Result
    ELSE ENABLED ExecNext

\* the first of at least two items failed, a later one succeeded, and the
\* executor returned
C9_Witness ==
  /\ variant = "withErrors"
  /\ mainPc = "returned"
  /\ Len0(items) >= 2
  /\ fnRet[0].Error = Err
  /\ results[1].Error = Nil /\ results[1].Result = items[1]

\* C10: when parallel is false, or maxConcurrent <= 1, or there is at most one
\* item, no goroutine is spawned, at most one invocation of fn is in progress,
\* and an item is invoked only after every earlier item's invocation returned.
C10_SequentialFastPath ==
  (~parallel \/ maxConcurrent <= 1 \/ Len0(items) <= 1) =>
    /\ Cardinality(Active) <= 1
    /\ \A i \in Idx(items) : gpc[i] = "none"
    /\ \A i \in Idx(items) :
         fnArg[i] # NoItem => \A j \in Idx(items) : j < i => fnRet[j] # NoOut

\* parallel is requested with maxConcurrent <= 1 and the second of several items
\* is being invoked
C10_Witness ==
  /\ parallel /\ maxConcurrent <= 1 /\ Len0(items) >= 2
  /\ mainPc = "seqInFn"
  /\ loopI = 1

\* ---------------------------------------------------------------- wait loop

ExecIdle ==
  /\ variant = "simple"
  /\ items = <<>>
  /\ parallel = FALSE
  /\ maxConcurrent = 0
  /\ results = <<>>
  /\ mainPc = "idle"
  /\ loopI = 0
  /\ gpc = <<>>
  /\ gItem = <<>>
  /\ fnArg = <<>>
  /\ fnRet = <<>>
  /\ sem = 0
  /\ mu = NoHolder
  /\ wg = 0

\* mutant of hasNewReviews: the tie-break on equal timestamps is missing
hasNewReviewsNoTieBreak(reviews, last) ==
  IF last = NoMarker
  THEN Len(reviews) > 0
  ELSE \E k \in 1..Len(reviews) : reviews[k].CreatedAt > last.CreatedAt

\* mutant of hasNewReviews: without a stored state only two or more reviews count
hasNewReviewsNilNeedsTwo(reviews, last) ==
  IF last = NoMarker
  THEN Len(reviews) > 1
  ELSE \E k \in 1..Len(reviews) :
         \/ reviews[k].CreatedAt > last.CreatedAt
         \/ (reviews[k].CreatedAt = last.CreatedAt /\ reviews[k].ID # last.ID)

\* hasNewReviews(reviews, lastState)
hasNewReviews(reviews, last) ==
  IF last = NoMarker
  THEN Len(reviews) > 0
  ELSE \E k \in 1..Len(reviews) :
         \/ reviews[k].CreatedAt > last.CreatedAt
         \/ (reviews[k].CreatedAt = last.CreatedAt /\ reviews[k].ID # last.ID)

\* mutant of ReviewsReadyAfter: the "!reviewsReady" guard is missing
ReviewsReadyRecomputed(rr, reviews, loaded) ==
  IF Len(reviews) > 0 THEN hasNewReviews(reviews, loaded) ELSE rr

\* reviewsReady after "if len(reviews) > 0 && !reviewsReady { ... }", with the
\* state loadReviewState returned
ReviewsReadyAfter(rr, reviews, loaded) ==
  IF Len(reviews) > 0 /\ ~rr THEN hasNewReviews(reviews, loaded) ELSE rr

\* checksComplete as the "Check PR checks status" block assigns it
\* mutant of ChecksCompleteOf: without a rollup only CLEAN counts as complete
ChecksCompleteCleanOnly(r) ==
  IF r.rollup # NoRollup
  THEN r.rollup \in {"SUCCESS", "FAILURE", "ERROR"}
  ELSE IF r.mergeable = "CONFLICTING" THEN TRUE
       ELSE r.mergeStatus = "CLEAN"

ChecksCompleteOf(r) ==
  IF r.rollup # NoRollup
  THEN r.rollup \in {"SUCCESS", "FAILURE", "ERROR"}
  ELSE IF r.mergeable = "CONFLICTING" THEN TRUE
       ELSE IF r.mergeStatus = "CLEAN" \/ r.mergeStatus = "HAS_HOOKS" THEN TRUE
       ELSE FALSE

\* the condition of "if reviewsReady && checksComplete" that ends the combined wait
BothReady(rr, cc) == rr /\ cc

\* the state saveReviewState is given: the last review of the list
LatestReview(reviews) == reviews[Len(reviews)]

WaitInit ==
  /\ ExecIdle
  /\ ToolIdle
  /\ excludeReviews \in BOOLEAN
  /\ excludeChecks \in BOOLEAN
  /\ requestReview \in BOOLEAN
  /\ savedRequestReview = FALSE
  /\ comments = 0
  /\ marker \in Markers
  /\ markerWrites = 0
  /\ lastState = NoMarker
  /\ reviewsReady = FALSE
  /\ checksComplete = FALSE
  /\ routine = "none"
  /\ wpc = "cmd"
  /\ outcome = "Polling"
  /\ retErr = Nil
  /\ exitStatus = NoExit
  /\ elapsed = 0
  /\ timeout \in 0..MaxTimeout
  /\ response = NoResponse
  /\ handlerInstalled = FALSE
  /\ sigPending = NoSig
  /\ sigAt = "none"
  /\ guidance = FALSE
  /\ markerList = <<>>

\* waitForReviews returns err to cobra and main: the deferred function restores
\* requestReview; the signal handler goroutine, if any, keeps running until main
\* ends the process
ReturnFromWait(out, err) ==
  /\ outcome' = out
  /\ retErr' = err
  /\ exitStatus' = exitStatus
  /\ requestReview' = savedRequestReview
  /\ wpc' = "returned"

\* waitForReviews: flag validation fails
RejectFlags ==
  /\ wpc = "cmd"
  /\ excludeReviews /\ excludeChecks
  /\ outcome' = "Rejected"
  /\ retErr' = Err
  /\ exitStatus' = ExitError
  /\ wpc' = "exited"
  /\ UNCHANGED <<excludeReviews, excludeChecks, requestReview, savedRequestReview,
                 comments, marker, markerWrites, lastState, reviewsReady,
                 checksComplete, routine, elapsed, timeout, response,
                 handlerInstalled, sigPending, sigAt, guidance,
                 markerList>>
  /\ UNCHANGED <<execVars, toolVars>>

\* mutant of WaitForReviews: requestReview is not cleared before delegating
WaitForReviewsNoOverride ==
  /\ wpc = "cmd"
  /\ ~(excludeReviews /\ excludeChecks)
  /\ LET waitReviews == ~excludeReviews
         waitChecks == ~excludeChecks
     IN \E posted \in BOOLEAN :
          IF requestReview /\ waitReviews /\ ~posted
          THEN \* CreatePRComment failed
               /\ outcome' = "RequestFailed"
               /\ retErr' = Err
               /\ exitStatus' = ExitError
               /\ wpc' = "exited"
               /\ UNCHANGED <<requestReview, savedRequestReview, comments, routine>>
          ELSE /\ comments' = IF requestReview /\ waitReviews
                              THEN comments + 1 ELSE comments
               /\ savedRequestReview' = requestReview
               /\ requestReview' = requestReview
               /\ routine' = IF waitReviews /\ ~waitChecks
                             THEN "reviewsOnly" ELSE "combined"
               /\ wpc' = "delegate"
               /\ UNCHANGED <<outcome, retErr, exitStatus>>
  /\ UNCHANGED <<excludeReviews, excludeChecks, marker, markerWrites, lastState,
                 reviewsReady, checksComplete, elapsed, timeout, response,
                 handlerInstalled, sigPending, sigAt, guidance,
                 markerList>>
  /\ UNCHANGED <<execVars, toolVars>>

\* waitForReviews: request the Gemini review if asked and reviews are waited for,
\* override requestReview, and choose the function to delegate to
WaitForReviews ==
  /\ wpc = "cmd"
  /\ ~(excludeReviews /\ excludeChecks)
  /\ LET waitReviews == ~excludeReviews
         waitChecks == ~excludeChecks
     IN \E posted \in BOOLEAN :
          IF requestReview /\ waitReviews /\ ~posted
          THEN \* CreatePRComment failed
               /\ outcome' = "RequestFailed"
               /\ retErr' = Err
               /\ exitStatus' = ExitError
               /\ wpc' = "exited"
               /\ UNCHANGED <<requestReview, savedRequestReview, comments, routine>>
          ELSE /\ comments' = IF requestReview /\ waitReviews
                              THEN comments + 1 ELSE comments
               /\ savedRequestReview' = requestReview
               /\ requestReview' = FALSE
               /\ routine' = IF waitReviews /\ ~waitChecks
                             THEN "reviewsOnly" ELSE "combined"
               /\ wpc' = "delegate"
               /\ UNCHANGED <<outcome, retErr, exitStatus>>
  /\ UNCHANGED <<excludeReviews, excludeChecks, marker, markerWrites, lastState,
                 reviewsReady, checksComplete, elapsed, timeout, response,
                 handlerInstalled, sigPending, sigAt, guidance,
                 markerList>>
  /\ UNCHANGED <<execVars, toolVars>>

\* waitForReviewsOnly up to the loop: load the stored state, take startTime
StartReviewsOnly ==
  /\ wpc = "delegate"
  /\ routine = "reviewsOnly"
  /\ lastState' = marker
  /\ elapsed' = 0
  /\ wpc' = "top"
  /\ UNCHANGED <<excludeReviews, excludeChecks, requestReview, savedRequestReview,
                 comments, marker, markerWrites, reviewsReady, checksComplete,
                 routine, outcome, retErr, exitStatus, timeout, response,
                 handlerInstalled, sigPending, sigAt, guidance,
                 markerList>>
  /\ UNCHANGED <<execVars, toolVars>>

\* waitForReviewsAndChecks up to the loop: request the review if requestReview is
\* still set, install the signal handler, take startTime, clear the two flags
StartCombined ==
  /\ wpc = "delegate"
  /\ routine = "combined"
  /\ \E posted \in BOOLEAN :
       IF requestReview /\ ~posted
       THEN /\ ReturnFromWait("RequestFailed", Err)
            /\ UNCHANGED <<comments, handlerInstalled, reviewsReady,
                           checksComplete, elapsed>>
       ELSE /\ comments' = IF requestReview THEN comments + 1 ELSE comments
            /\ handlerInstalled' = TRUE
            /\ reviewsReady' = FALSE
            /\ checksComplete' = FALSE
            /\ elapsed' = 0
            /\ wpc' = "top"
            /\ UNCHANGED <<requestReview, outcome, retErr, exitStatus>>
  /\ UNCHANGED <<excludeReviews, excludeChecks, savedRequestReview, marker,
                 markerWrites, lastState, routine, timeout, response, sigPending, sigAt,
                 guidance,
                 markerList>>
  /\ UNCHANGED <<execVars, toolVars>>

\* mutant of CheckTimeout: a timeout is returned as an error
CheckTimeoutReturnsError ==
  /\ wpc = "top"
  /\ IF elapsed > timeout
     THEN ReturnFromWait(IF routine = "combined" /\ reviewsReady /\ checksComplete
                         THEN "Satisfied" ELSE "TimedOut", Err)
     ELSE /\ wpc' = "fetch"
          /\ UNCHANGED <<outcome, retErr, exitStatus, requestReview>>
  /\ UNCHANGED <<excludeReviews, excludeChecks, savedRequestReview, comments,
                 marker, markerWrites, lastState, reviewsReady, checksComplete,
                 routine, elapsed, timeout, response, handlerInstalled,
                 sigPending, sigAt, guidance, markerList>>
  /\ UNCHANGED <<execVars, toolVars>>

\* mutant of CheckTimeout: the deadline is noticed one sleep too late
CheckTimeoutLate ==
  /\ wpc = "top"
  /\ IF elapsed > timeout + SleepTicks
     THEN ReturnFromWait(IF routine = "combined" /\ reviewsReady /\ checksComplete
                         THEN "Satisfied" ELSE "TimedOut", Nil)
     ELSE /\ wpc' = "fetch"
          /\ UNCHANGED <<outcome, retErr, exitStatus, requestReview>>
  /\ UNCHANGED <<excludeReviews, excludeChecks, savedRequestReview, comments,
                 marker, markerWrites, lastState, reviewsReady, checksComplete,
                 routine, elapsed, timeout, response, handlerInstalled,
                 sigPending, sigAt, guidance,
                 markerList>>
  /\ UNCHANGED <<execVars, toolVars>>

\* time.Since(startTime) > effectiveTimeout at the top of either loop
CheckTimeout ==
  /\ wpc = "top"
  /\ IF elapsed > timeout
     THEN ReturnFromWait(IF routine = "combined" /\ reviewsReady /\ checksComplete
                         THEN "Satisfied" ELSE "TimedOut", Nil)
     ELSE /\ wpc' = "fetch"
          /\ UNCHANGED <<outcome, retErr, exitStatus, requestReview>>
  /\ UNCHANGED <<excludeReviews, excludeChecks, savedRequestReview, comments,
                 marker, markerWrites, lastState, reviewsReady, checksComplete,
                 routine, elapsed, timeout, response, handlerInstalled,
                 sigPending, sigAt, guidance,
                 markerList>>
  /\ UNCHANGED <<execVars, toolVars>>

\* mutant of FetchFail: the error of FetchPRData is returned to the caller
FetchFailAborts ==
  /\ wpc = "fetch"
  /\ \E d \in FetchTicks : elapsed' = elapsed + d
  /\ ReturnFromWait("RequestFailed", Err)
  /\ UNCHANGED <<excludeReviews, excludeChecks, savedRequestReview,
                 comments, marker, markerWrites, lastState, reviewsReady,
                 checksComplete, routine, timeout,
                 response, handlerInstalled, sigPending, sigAt, guidance,
                 markerList>>
  /\ UNCHANGED <<execVars, toolVars>>

\* mutant of FetchFail: the call is retried at once, without the sleep and
\* without going back to the timeout check
FetchFailRetriesAtOnce ==
  /\ wpc = "fetch"
  /\ \E d \in FetchTicks :
       elapsed' = IF elapsed > timeout + SleepTicks THEN elapsed ELSE elapsed + d
  /\ wpc' = "fetch"
  /\ UNCHANGED <<excludeReviews, excludeChecks, requestReview, savedRequestReview,
                 comments, marker, markerWrites, lastState, reviewsReady,
                 checksComplete, routine, outcome, retErr, exitStatus, timeout,
                 response, handlerInstalled, sigPending, sigAt, guidance,
                 markerList>>
  /\ UNCHANGED <<execVars, toolVars>>

\* mutant of FetchFail: the continue is missing, the sleep of the error branch is
\* followed by the sleep at the end of the loop body
FetchFailSleepsTwice ==
  /\ wpc = "fetch"
  /\ \E d \in FetchTicks : elapsed' = elapsed + d + SleepTicks
  /\ wpc' = "sleep"
  /\ UNCHANGED <<excludeReviews, excludeChecks, requestReview, savedRequestReview,
                 comments, marker, markerWrites, lastState, reviewsReady,
                 checksComplete, routine, outcome, retErr, exitStatus, timeout,
                 response, handlerInstalled, sigPending, sigAt, guidance,
                 markerList>>
  /\ UNCHANGED <<execVars, toolVars>>

\* FetchPRData returns an error: it is printed and the loop sleeps
FetchFail ==
  /\ wpc = "fetch"
  /\ \E d \in FetchTicks : elapsed' = elapsed + d
  /\ wpc' = "sleep"
  /\ UNCHANGED <<excludeReviews, excludeChecks, requestReview, savedRequestReview,
                 comments, marker, markerWrites, lastState, reviewsReady,
                 checksComplete, routine, outcome, retErr, exitStatus, timeout,
                 response, handlerInstalled, sigPending, sigAt, guidance,
                 markerList>>
  /\ UNCHANGED <<execVars, toolVars>>

\* waitForReviewsOnly: one successful poll and its evaluation (the write of the
\* state file by saveReviewState is taken to succeed)
PollReviewsOnly ==
  /\ wpc = "fetch"
  /\ routine = "reviewsOnly"
  /\ \E r \in Responses, d \in FetchTicks :
       /\ response' = r
       /\ elapsed' = elapsed + d
       /\ IF hasNewReviews(r.reviews, lastState)
          THEN /\ IF Len(r.reviews) > 0
                  THEN /\ marker' = LatestReview(r.reviews)
                       /\ markerWrites' = markerWrites + 1
                       /\ markerList' = r.reviews
                  ELSE UNCHANGED <<marker, markerWrites, markerList>>
               /\ ReturnFromWait("Satisfied", Nil)
          ELSE /\ wpc' = "sleep"
               /\ UNCHANGED <<marker, markerWrites, markerList, outcome, retErr,
                              exitStatus, requestReview>>
  /\ UNCHANGED <<excludeReviews, excludeChecks, savedRequestReview, comments,
                 lastState, reviewsReady, checksComplete, routine, timeout,
                 handlerInstalled, sigPending, sigAt, guidance>>
  /\ UNCHANGED <<execVars, toolVars>>

\* mutant of PollCombined: the merge-conflict check runs after the checks
\* evaluation and the both-ready test
PollCombinedConflictLast ==
  /\ wpc = "fetch"
  /\ routine = "combined"
  /\ \E r \in Responses, d \in FetchTicks :
       LET rr == ReviewsReadyAfter(reviewsReady, r.reviews, marker)
           cc == ChecksCompleteOf(r)
       IN /\ response' = r
          /\ elapsed' = elapsed + d
          /\ reviewsReady' = rr
          /\ checksComplete' = cc
          /\ IF BothReady(rr, cc)
             THEN ReturnFromWait("Satisfied", Nil)
             ELSE IF r.mergeable = "CONFLICTING"
                  THEN ReturnFromWait("MergeConflictAbort", Err)
                  ELSE /\ wpc' = "sleep"
                       /\ UNCHANGED <<outcome, retErr, exitStatus, requestReview>>
  /\ UNCHANGED <<excludeReviews, excludeChecks, savedRequestReview, comments,
                 marker, markerWrites, lastState, routine, timeout,
                 handlerInstalled, sigPending, sigAt, guidance,
                 markerList>>
  /\ UNCHANGED <<execVars, toolVars>>

\* waitForReviewsAndChecks: one successful poll and its evaluation
PollCombined ==
  /\ wpc = "fetch"
  /\ routine = "combined"
  /\ \E r \in Responses, d \in FetchTicks :
       LET rr == ReviewsReadyAfter(reviewsReady, r.reviews, marker)
           cc == ChecksCompleteOf(r)
       IN /\ response' = r
          /\ elapsed' = elapsed + d
          /\ reviewsReady' = rr
          /\ IF r.mergeable = "CONFLICTING"
             THEN /\ ReturnFromWait("MergeConflictAbort", Err)
                  /\ UNCHANGED checksComplete
             ELSE /\ checksComplete' = cc
                  /\ IF BothReady(rr, cc)
                     THEN ReturnFromWait("Satisfied", Nil)
                     ELSE /\ wpc' = "sleep"
                          /\ UNCHANGED <<outcome, retErr, exitStatus, requestReview>>
  /\ UNCHANGED <<excludeReviews, excludeChecks, savedRequestReview, comments,
                 marker, markerWrites, lastState, routine, timeout,
                 handlerInstalled, sigPending, sigAt, guidance,
                 markerList>>
  /\ UNCHANGED <<execVars, toolVars>>

\* time.Sleep(30 * time.Second) at the end of an iteration; the iteration's
\* response goes out of scope
Sleep ==
  /\ wpc = "sleep"
  /\ elapsed' = elapsed + SleepTicks
  /\ response' = NoResponse
  /\ wpc' = "top"
  /\ UNCHANGED <<excludeReviews, excludeChecks, requestReview, savedRequestReview,
                 comments, marker, markerWrites, lastState, reviewsReady,
                 checksComplete, routine, outcome, retErr, exitStatus, timeout,
                 handlerInstalled, sigPending, sigAt, guidance,
                 markerList>>
  /\ UNCHANGED <<execVars, toolVars>>

SigNum(sig) == IF sig = "SIGINT" THEN 2 ELSE 15

\* main: rootCmd.Execute returned; the process exits, with status 1 after an error
MainExit ==
  /\ wpc = "returned"
  /\ exitStatus' = IF retErr = Nil THEN 0 ELSE ExitError
  /\ wpc' = "exited"
  /\ UNCHANGED <<excludeReviews, excludeChecks, requestReview, savedRequestReview,
                 comments, marker, markerWrites, lastState, reviewsReady,
                 checksComplete, routine, outcome, retErr, elapsed, timeout,
                 response, handlerInstalled, sigPending, sigAt, guidance,
                 markerList>>
  /\ UNCHANGED <<execVars, toolVars>>

\* SIGINT or SIGTERM arrives while the process runs: it is queued on sigChan when
\* the handler is installed, and otherwise terminates the process at once (the
\* default action, seen by the caller as status 128 + signal number)
Signal ==
  /\ wpc # "exited"
  /\ sigPending = NoSig
  /\ sigAt' = wpc
  /\ IF handlerInstalled
     THEN \* the handler treats SIGINT and SIGTERM alike
          /\ sigPending' = "queued"
          /\ UNCHANGED <<outcome, exitStatus, wpc>>
     ELSE \E sig \in {"SIGINT", "SIGTERM"} :
            /\ sigPending' = sig
            /\ outcome' = IF outcome = "Polling" THEN "Cancelled" ELSE outcome
            /\ exitStatus' = 128 + SigNum(sig)
            /\ wpc' = "exited"
  /\ UNCHANGED <<excludeReviews, excludeChecks, requestReview, savedRequestReview,
                 comments, marker, markerWrites, lastState, reviewsReady,
                 checksComplete, routine, retErr, elapsed, timeout, response,
                 handlerInstalled, guidance,
                 markerList>>
  /\ UNCHANGED <<execVars, toolVars>>

\* the handler goroutine: sig := <-sigChan; print; os.Exit(130)
HandleSignal ==
  /\ wpc # "exited"
  /\ sigPending # NoSig
  /\ handlerInstalled
  /\ guidance' = TRUE
  /\ outcome' = IF outcome = "Polling" THEN "Cancelled" ELSE outcome
  /\ exitStatus' = ExitInterrupted
  /\ wpc' = "exited"
  /\ UNCHANGED <<excludeReviews, excludeChecks, requestReview, savedRequestReview,
                 comments, marker, markerWrites, lastState, reviewsReady,
                 checksComplete, routine, retErr, elapsed, timeout, response,
                 handlerInstalled, sigPending, sigAt, markerList>>
  /\ UNCHANGED <<execVars, toolVars>>

WaitNext ==
  \/ RejectFlags
  \/ WaitForReviews
  \/ StartReviewsOnly
  \/ StartCombined
  \/ CheckTimeout
  \/ FetchFail
  \/ PollReviewsOnly
  \/ PollCombined
  \/ Sleep
  \/ MainExit
  \/ Signal
  \/ HandleSignal

SpecWait == WaitInit /\ [][WaitNext]_vars

\* the steps of the main goroutine: the Go scheduler runs it whenever it is
\* runnable, FetchPRData and time.Sleep return
MainStep ==
  \/ RejectFlags
  \/ WaitForReviews
  \/ StartReviewsOnly
  \/ StartCombined
  \/ CheckTimeout
  \/ FetchFail
  \/ PollReviewsOnly
  \/ PollCombined
  \/ Sleep
  \/ MainExit

\* the waits of the fair specification: no --request-review, and either no stored
\* state or the state of one earlier review
FairInit ==
  /\ WaitInit
  /\ requestReview = FALSE
  /\ marker \in {NoMarker, [ID |-> "R1", CreatedAt |-> 1]}

\* a following "reviews wait" on the same PR with the same flags, after a
\* reviews-only wait ended Satisfied and saved its state: a new process, the state
\* file and the PR's comments are what the first one left
Reinvoke ==
  /\ wpc = "exited"
  /\ routine = "reviewsOnly"
  /\ outcome = "Satisfied"
  /\ markerWrites = 1
  /\ savedRequestReview' = FALSE
  /\ lastState' = NoMarker
  /\ reviewsReady' = FALSE
  /\ checksComplete' = FALSE
  /\ routine' = "none"
  /\ wpc' = "cmd"
  /\ outcome' = "Polling"
  /\ retErr' = Nil
  /\ exitStatus' = NoExit
  /\ elapsed' = 0
  /\ response' = NoResponse
  /\ handlerInstalled' = FALSE
  /\ sigPending' = NoSig
  /\ sigAt' = "none"
  /\ guidance' = FALSE
  /\ UNCHANGED <<excludeReviews, excludeChecks, requestReview, comments, marker,
                 markerWrites, timeout, markerList>>
  /\ UNCHANGED <<execVars, toolVars>>

\* reviews wait --exclude-checks
RepeatInit ==
  /\ WaitInit
  /\ excludeChecks
  /\ ~excludeReviews

RepeatNext ==
  \/ WaitForReviews
  \/ StartReviewsOnly
  \/ CheckTimeout
  \/ FetchFail
  \/ PollReviewsOnly
  \/ Sleep
  \/ MainExit
  \/ Signal
  \/ Reinvoke

SpecRepeat == RepeatInit /\ [][RepeatNext]_vars

\* the wait when FetchPRData fails on every call
FailingStep ==
  \/ RejectFlags
  \/ WaitForReviews
  \/ StartReviewsOnly
  \/ StartCombined
  \/ CheckTimeout
  \/ FetchFail
  \/ Sleep
  \/ MainExit

FailingNext ==
  \/ FailingStep
  \/ Signal
  \/ HandleSignal

SpecFetchFails == WaitInit /\ [][FailingNext]_vars /\ WF_vars(FailingStep)

SpecWaitFair == FairInit /\ [][WaitNext]_vars /\ WF_vars(MainStep)

\* ----------------------------------------------------- wait loop: properties

\* a successful poll has just been evaluated (the response is still in scope)
Polled == response # NoResponse

\* the conditions the flags enable, as the running wait function holds them
ReviewsCond ==
  IF routine = "reviewsOnly"
  THEN hasNewReviews(response.reviews, lastState)
  ELSE reviewsReady

AllEnabledHold ==
  /\ ~excludeReviews => ReviewsCond
  /\ ~excludeChecks => checksComplete

\* C3: a successful poll of a snapshot without merge conflict leaves the loop
\* polling only if some enabled condition does not hold after it, and a wait
\* that ended Satisfied ended at a poll after which every enabled condition holds.
C3_SatisfiedExactlyWhenAllEnabledHold ==
  /\ (Polled /\ wpc = "sleep") => ~AllEnabledHold
  /\ outcome = "Satisfied" => (Polled /\ AllEnabledHold)

\* C3 for the two modes that wait for reviews
C3_HoldsWhenReviewsAreWaitedFor ==
  ~excludeReviews => C3_SatisfiedExactlyWhenAllEnabledHold

\* C4: with --exclude-reviews a successful poll of a snapshot without merge
\* conflict whose checks are complete ends the wait Satisfied, whatever the
\* reviews are.
C4_ChecksOnlyEndsOnChecks ==
  (excludeReviews /\ ~excludeChecks /\ Polled /\ checksComplete
     /\ response.mergeable # "CONFLICTING") => outcome = "Satisfied"

\* C5 as amended: reviewsReady never goes from true back to false.
C5_ReviewsReadyMonotonic == [][reviewsReady => reviewsReady']_vars

\* C5 as claimed: neither reviewsReady nor checksComplete ever goes from true
\* back to false.
C5_BothFlagsMonotonic ==
  [][(reviewsReady => reviewsReady') /\ (checksComplete => checksComplete')]_vars

\* reviewsReady is still true after a later poll whose snapshot has no review
\* that is new with respect to the stored state
C5_Witness ==
  /\ routine = "combined"
  /\ Polled /\ wpc = "sleep"
  /\ reviewsReady
  /\ ~hasNewReviews(response.reviews, marker)

\* C6 as amended: in the combined wait (both conditions, or checks only) a poll
\* whose snapshot has merge state CONFLICTING ends the wait at that poll with
\* MergeConflictAbort and a non-nil error, whatever the other conditions are.
C6_ConflictAbortsCombinedWait ==
  (routine = "combined" /\ Polled /\ response.mergeable = "CONFLICTING") =>
    /\ outcome = "MergeConflictAbort"
    /\ retErr = Err
    /\ wpc \in {"returned", "exited"}

\* C6 as claimed: in every wait mode a poll whose snapshot has merge state
\* CONFLICTING ends the wait with MergeConflictAbort.
C6_ConflictAbortsEveryWait ==
  (Polled /\ response.mergeable = "CONFLICTING") => outcome = "MergeConflictAbort"

\* the combined wait aborted on a conflicting snapshot although reviews are ready
\* and no rollup is present
C6_Witness ==
  /\ routine = "combined"
  /\ outcome = "MergeConflictAbort"
  /\ reviewsReady
  /\ response.rollup = NoRollup
  /\ response.mergeable = "CONFLICTING"

\* C7: after a wait that ended Satisfied with reviews ready the stored marker is
\* a review of the final snapshot, and a wait that ended TimedOut,
\* MergeConflictAbort or Cancelled wrote no marker.
C7_MarkerWrittenOnSatisfied ==
  /\ (outcome = "Satisfied" /\ ReviewsCond) =>
       \E k \in 1..Len(response.reviews) : marker = response.reviews[k]
  /\ outcome \in {"TimedOut", "MergeConflictAbort", "Cancelled"} =>
       markerWrites = 0

\* C7 for the reviews-only wait alone
C7_HoldsForReviewsOnly ==
  routine = "reviewsOnly" => C7_MarkerWrittenOnSatisfied

\* the state the running wait function compares reviews against
StoredMarker == IF routine = "reviewsOnly" THEN lastState ELSE marker

\* a step that is a successful poll and its evaluation
PollStep == wpc = "fetch" /\ response' # NoResponse

\* reviews count as ready after the poll of this step
ReadyAfterPoll ==
  IF routine = "reviewsOnly" THEN outcome' = "Satisfied" ELSE reviewsReady'

\* C11: with a stored marker, a poll (of a wait whose reviews were not ready yet)
\* finds new reviews if and only if its snapshot has a review created strictly
\* after the marker, or created at the marker's time under another id.
C11_NewReviewsAgainstMarker ==
  [][(PollStep /\ StoredMarker # NoMarker /\ ~reviewsReady) =>
       (ReadyAfterPoll <=>
          \E k \in 1..Len(response'.reviews) :
            \/ response'.reviews[k].CreatedAt > StoredMarker.CreatedAt
            \/ /\ response'.reviews[k].CreatedAt = StoredMarker.CreatedAt
               /\ response'.reviews[k].ID # StoredMarker.ID)]_vars

\* the snapshot holds only the marker's own review and reviews are not ready
C11_Witness ==
  /\ routine = "combined"
  /\ Polled /\ wpc = "sleep"
  /\ marker # NoMarker
  /\ response.reviews = <<marker>>
  /\ ~reviewsReady

\* C12: without a stored marker, reviews are ready after a poll exactly when
\* they were ready before it or its snapshot has at least one review.
C12_FirstRunAnyReviewCounts ==
  [][(PollStep /\ StoredMarker = NoMarker) =>
       (ReadyAfterPoll <=> (reviewsReady \/ Len(response'.reviews) > 0))]_vars

\* no marker is stored, an earlier poll found no review (a sleep followed it), and
\* this poll's snapshot has one review, which makes reviews ready
C12_Witness ==
  /\ routine = "combined"
  /\ marker = NoMarker
  /\ Polled /\ wpc = "sleep"
  /\ elapsed >= SleepTicks
  /\ Len(response.reviews) = 1
  /\ reviewsReady

\* a step in which the wait loop ends by returning to its caller
LoopReturns == wpc \in {"top", "fetch"} /\ wpc' = "returned"

\* C13: every wait leaves Polling; a loop that ends without its conditions
\* satisfied and without a merge conflict ends in TimedOut with no error, after
\* the deadline and at most one fetch plus one sleep after it.
C13_UnsatisfiedWaitTimesOut ==
  /\ <>(outcome # "Polling")
  /\ [][(LoopReturns /\ outcome' \notin {"Satisfied", "MergeConflictAbort"}) =>
          /\ outcome' = "TimedOut"
          /\ retErr' = Nil
          /\ elapsed' > timeout
          /\ \E d \in FetchTicks : elapsed' <= timeout + d + SleepTicks]_vars

\* a wait that timed out after at least one full poll cycle, at the largest
\* overshoot a slow fetch and a sleep can produce
C13_Witness ==
  /\ outcome = "TimedOut"
  /\ wpc = "returned"
  /\ retErr = Nil
  /\ \A d \in FetchTicks : elapsed >= timeout + d + SleepTicks

\* a signal was delivered while the wait loop was checking, fetching or sleeping
SignalInLoop == sigAt \in {"top", "fetch", "sleep"}

\* C14: when SIGINT or SIGTERM arrives while the loop of any wait mode is
\* polling, fetching or sleeping, the process ends with the cancellation
\* guidance printed and with exit status 130.
C14_SignalGivesGuidanceAndExit130 ==
  (SignalInLoop /\ wpc = "exited") =>
     /\ guidance
     /\ exitStatus = ExitInterrupted

\* the same for the wait function that installs the handler, as long as the
\* handler goroutine runs before the main goroutine ends the process
C14_HoldsWhereHandlerRuns ==
  (SignalInLoop /\ wpc = "exited" /\ routine = "combined" /\ guidance) =>
     exitStatus = ExitInterrupted

\* a step of the main goroutine in which FetchPRData ends without a response
FailedFetchStep ==
  /\ wpc = "fetch"
  /\ wpc' \notin {"fetch", "exited"}
  /\ response' = NoResponse

\* C15: a failed fetch leaves the wait in Polling with both flags unchanged and
\* goes to the sleep; a sleep lasts one poll interval and leads to the top of the
\* loop, and a fetch starts only from there.
C15_FetchFailureKeepsPolling ==
  /\ [][FailedFetchStep =>
          /\ wpc' = "sleep"
          /\ outcome' = "Polling"
          /\ UNCHANGED <<reviewsReady, checksComplete>>]_vars
  /\ [][(wpc = "sleep" /\ wpc' \notin {"sleep", "exited"}) =>
          /\ wpc' = "top"
          /\ elapsed' = elapsed + SleepTicks]_vars
  /\ [][(wpc # "fetch" /\ wpc' = "fetch") => wpc = "top"]_vars

\* a fetch has just failed in a wait whose reviews were already ready
C15_Witness ==
  /\ wpc = "sleep"
  /\ response = NoResponse
  /\ outcome = "Polling"
  /\ reviewsReady

\* C16: a timeout is returned without an error, a merge conflict is returned as
\* an error, and a cancellation by a signal that arrived in the wait loop ends
\* the process with exit status 130.
C16_OutcomesDistinguishable ==
  /\ outcome = "TimedOut" => retErr = Nil
  /\ outcome = "MergeConflictAbort" => retErr = Err
  /\ (outcome = "Cancelled" /\ SignalInLoop /\ wpc = "exited") =>
       exitStatus = ExitInterrupted

\* the same where the signal handler is installed
C16_HoldsForCombinedWait ==
  /\ outcome = "TimedOut" => retErr = Nil
  /\ outcome = "MergeConflictAbort" => retErr = Err
  /\ (outcome = "Cancelled" /\ SignalInLoop /\ wpc = "exited"
        /\ routine = "combined") => exitStatus = ExitInterrupted

\* C17: after a successful poll of a non-conflicting snapshot in the combined
\* wait, checksComplete is: with a rollup, its state being SUCCESS, FAILURE or
\* ERROR; without one, the merge-state status being CLEAN or HAS_HOOKS.
C17_ChecksCompleteFromSnapshot ==
  (routine = "combined" /\ response # NoResponse
     /\ response.mergeable # "CONFLICTING") =>
    (checksComplete <=>
       IF response.rollup \in RollupStates
       THEN response.rollup \in {"SUCCESS", "FAILURE", "ERROR"}
       ELSE response.mergeStatus \in {"CLEAN", "HAS_HOOKS"})

\* a snapshot without a rollup whose merge-state status is HAS_HOOKS was polled
C17_Witness ==
  /\ routine = "combined"
  /\ wpc = "sleep"
  /\ response # NoResponse
  /\ response.mergeable = "MERGEABLE"
  /\ response.rollup = NoRollup
  /\ response.mergeStatus = "HAS_HOOKS"
  /\ checksComplete

\* C18: once the wait has left Polling its outcome stays, no further fetch is
\* started, and the process reports that outcome: status 0 after Satisfied or
\* TimedOut, the error status after MergeConflictAbort.
C18_TerminalOutcomeIsFinal ==
  /\ [][outcome # "Polling" => (outcome' = outcome /\ wpc' # "fetch")]_vars
  /\ []((wpc = "exited" /\ outcome \in {"Satisfied", "TimedOut"}) =>
          exitStatus = 0)
  /\ []((wpc = "exited" /\ outcome = "MergeConflictAbort") =>
          exitStatus = ExitError)

\* the same for processes that receive no signal after the wait has returned
C18_HoldsWithoutLateSignal ==
  /\ [][outcome # "Polling" => (outcome' = outcome /\ wpc' # "fetch")]_vars
  /\ []((wpc = "exited" /\ outcome \in {"Satisfied", "TimedOut"}
           /\ sigPending = NoSig) => exitStatus = 0)
  /\ []((wpc = "exited" /\ outcome = "MergeConflictAbort"
           /\ sigPending = NoSig) => exitStatus = ExitError)

\* C19 as stated: when ExecuteParallel has returned, the entry of every item for
\* which fn returned an error is the zero value of R.
C19_ZeroValueOnError ==
  (variant = "simple" /\ mainPc = "returned") =>
    \A i \in Idx(items) : fnRet[i].Error = Err => results[i] = 0

\* C19: when ExecuteParallel has returned, the entry of every item for which fn
\* returned an error is the result value fn returned alongside that error (the
\* error is dropped): zero only if fn returned zero with it.
C19_ErrorDroppedResultKept ==
  (variant = "simple" /\ mainPc = "returned") =>
    \A i \in Idx(items) :
      fnRet[i].Error = Err =>
        results[i] = fnRet[i].Result

\* ExecuteParallel returned with one entry that holds a non-zero value fn
\* returned with an error and one that holds a zero returned with an error
C19_Witness ==
  /\ variant = "simple"
  /\ mainPc = "returned"
  /\ \E i \in Idx(items) : fnRet[i].Error = Err /\ results[i] # 0
  /\ \E i \in Idx(items) : fnRet[i].Error = Err /\ results[i] = 0

\* the executor runs its worker goroutines
OnParallelPath == parallel /\ maxConcurrent > 1 /\ Len0(items) > 1

\* C20: on the parallel path an entry of results changes only in a step of the
\* worker of that index, which holds the mutex before the step and has stored
\* after it; a worker that has stored never stores again; a worker past Lock is
\* the holder of the mutex; and the executor has returned only when every worker
\* is done (or has ended in a panic, without a write).
C20_WorkersWriteOwnIndexOnce ==
  /\ [][(OnParallelPath /\ mainPc # "entry") =>
          \A i \in Idx(items) :
            /\ results'[i] # results[i] =>
                 (mu = i /\ gpc[i] = "locked" /\ gpc'[i] = "stored")
            /\ gpc[i] \in {"stored", "done"} =>
                 (gpc'[i] \notin {"returned", "locked"} /\ results'[i] = results[i])]_vars
  /\ [](OnParallelPath =>
          /\ \A i \in Idx(items) : gpc[i] = "locked" => mu = i
          /\ mainPc = "returned" =>
                \A i \in Idx(items) : gpc[i] \in {"done", "panicked"})

\* two workers have stored their different results while a third holds the mutex
C20_Witness ==
  /\ OnParallelPath
  /\ Len0(items) >= 3
  /\ gpc[2] = "stored" /\ gpc[0] = "done" /\ gpc[1] = "locked"
  /\ mu = 1
  /\ results[0] # 0 /\ results[2] # 0 /\ results[0] # results[2]

\* C21: when fn has panicked for an item and the executor can take no further
\* step, the executor has returned to its caller and every other item was
\* invoked, returned, and has its result stored at its index.
C21_PanicIsolatedToItem ==
  ((\E j \in Idx(items) : fnRet[j] = PanicOut) /\ ~ENABLED ExecNext) =>
    /\ mainPc = "returned"
    /\ \A i \in Idx(items) :
         fnRet[i] # PanicOut =>
           /\ fnArg[i] = items[i]
           /\ fnRet[i] # NoOut
           /\ results[i] = StoredValue(variant, i, fnRet[i])

\* the goroutines that were spawned and have not finished
Unfinished ==
  { i \in Idx(items) :
      gpc[i] \in {"waiting", "running", "returned", "locked", "stored"} }

\* C22 as stated: on the parallel path at most maxConcurrent goroutines are
\* spawned and unfinished, in every state.
C22_GoroutinesBoundedByMaxConcurrent ==
  OnParallelPath => Cardinality(Unfinished) <= maxConcurrent

\* C22: on the parallel path the spawn loop is never held back by the
\* goroutines already running, the unfinished goroutines are bounded by
\* len(items), and of them only those past the semaphore, at most maxConcurrent,
\* are not waiting for it.
C22_OneGoroutinePerItemGateOnFn ==
  OnParallelPath =>
    /\ (mainPc = "spawn" /\ loopI < Len0(items)) => ENABLED Spawn
    /\ Cardinality(Unfinished) <= Len0(items)
    /\ Cardinality({ i \in Unfinished : gpc[i] # "waiting" }) <= maxConcurrent

\* every one of the items, more than maxConcurrent, has an unfinished goroutine
C22_Witness ==
  /\ OnParallelPath
  /\ mainPc = "wait"
  /\ Len0(items) > maxConcurrent
  /\ Cardinality(Unfinished) = Len0(items)
  /\ \E i \in Idx(items) : gpc[i] = "waiting"
  /\ sem = maxConcurrent

\* C23 as stated: a wait that timed out did so no later than the timeout plus
\* the duration of one fetch.
C23_TimeoutWithinOneFetch ==
  outcome = "TimedOut" => \E d \in FetchTicks : elapsed <= timeout + d

\* C23: a wait that timed out did so after the timeout and no later than the
\* timeout plus the duration of one fetch plus one poll-interval sleep.
C23_TimeoutWithinFetchAndSleep ==
  outcome = "TimedOut" =>
    /\ elapsed > timeout
    /\ \E d \in FetchTicks : elapsed - SleepTicks <= timeout + d

\* a wait timed out later than the timeout plus the longest fetch: the sleep
\* added to the delay
C23_Witness ==
  /\ outcome = "TimedOut"
  /\ \A d \in FetchTicks : elapsed > timeout + d

\* C24: in a reviews-only wait that follows one which ended Satisfied and saved
\* its marker, a poll whose snapshot has exactly the review list the marker was
\* saved from does not end the wait Satisfied.
C24_SeenReviewsAreNotNew ==
  [][(wpc = "fetch" /\ routine = "reviewsOnly" /\ markerList # <<>>
        /\ response' # NoResponse /\ response'.reviews = markerList) =>
       outcome' # "Satisfied"]_vars

\* the same for lists whose last review is strictly the latest one
C24_HoldsWhenLastIsStrictlyLatest ==
  [][(wpc = "fetch" /\ routine = "reviewsOnly" /\ markerList # <<>>
        /\ response' # NoResponse /\ response'.reviews = markerList
        /\ \A k \in 1..(Len(markerList) - 1) :
             markerList[k].CreatedAt < markerList[Len(markerList)].CreatedAt) =>
       outcome' # "Satisfied"]_vars

\* the following wait polled the list the marker was saved from, found nothing
\* new and sleeps
C24_HoldsWitness ==
  /\ routine = "reviewsOnly"
  /\ markerList # <<>>
  /\ wpc = "sleep"
  /\ response # NoResponse
  /\ response.reviews = markerList

\* C25: when every fetch fails, the wait leaves Polling, never as Satisfied or
\* MergeConflictAbort, and a wait loop that ended without a signal ended in
\* TimedOut with a nil error, after the deadline.
C25_FailingFetchesEndInTimeout ==
  /\ <>(outcome # "Polling")
  /\ [](outcome \notin {"Satisfied", "MergeConflictAbort"})
  /\ []((routine # "none" /\ wpc \in {"returned", "exited"} /\ sigPending = NoSig) =>
          /\ outcome = "TimedOut"
          /\ retErr = Nil
          /\ elapsed > timeout)

\* a combined wait timed out after at least two failed fetches and their sleeps
C25_Witness ==
  /\ routine = "combined"
  /\ outcome = "TimedOut"
  /\ retErr = Nil
  /\ response = NoResponse
  /\ elapsed >= SleepTicks + SleepTicks

\* C26: once waitForReviewsAndChecks has reached its loop, its error is non-nil
\* exactly when the latest poll saw mergeable = CONFLICTING; Satisfied and
\* TimedOut both have a nil error and, without a signal, exit status 0.
C26_ErrorOnlyOnConflict ==
  (routine = "combined" /\ handlerInstalled) =>
    /\ retErr = Err <=>
         (response # NoResponse /\ response.mergeable = "CONFLICTING")
    /\ outcome \in {"Satisfied", "TimedOut"} =>
         /\ retErr = Nil
         /\ (wpc = "exited" /\ sigPending = NoSig) => exitStatus = 0

\* a combined wait timed out after at least one full iteration and the process
\* ended with the status a satisfied wait has
C26_Witness ==
  /\ routine = "combined"
  /\ handlerInstalled
  /\ outcome = "TimedOut"
  /\ wpc = "exited"
  /\ exitStatus = 0
  /\ retErr = Nil
  /\ elapsed > timeout + SleepTicks

\* C27: the comment is posted at most once, only by a command with
\* --request-review and without --exclude-reviews, and only before the wait
\* function is entered; a wait that reached its loop with both has posted it;
\* requestReview is cleared while the wait function runs and has the value saved
\* at delegation when waitForReviews has returned.
C27_ReviewRequestedOnce ==
  /\ [](comments <= 1)
  /\ [](comments = 1 => (savedRequestReview /\ ~excludeReviews))
  /\ []((wpc \in {"top", "fetch", "sleep"} /\ savedRequestReview /\ ~excludeReviews)
          => comments = 1)
  /\ [](wpc \in {"delegate", "top", "fetch", "sleep"} => ~requestReview)
  /\ [](wpc = "returned" => requestReview = savedRequestReview)
  /\ [][comments' # comments =>
          (wpc = "cmd" /\ wpc' = "delegate" /\ requestReview
             /\ response = NoResponse /\ elapsed = 0)]_vars
  /\ [][(wpc = "cmd" /\ wpc' = "delegate") => savedRequestReview' = requestReview]_vars

\* a combined wait with --request-review returned after a poll: one comment,
\* the flag set again
C27_Witness ==
  /\ routine = "combined"
  /\ wpc = "returned"
  /\ response # NoResponse
  /\ comments = 1
  /\ requestReview

\* C28: for a bulk reply over n >= 2 threads in which no reply panicked, the
\* executor can take a step until it has returned, and when it has returned
\* there are n entries, entry i carries the id of argument i, every thread was
\* replied to, total = n = successful + failed, and resolved <= successful.
C28_BulkReplySummary ==
  (variant = "reply" /\ Len0(items) >= 2
     /\ \A i \in Idx(items) : fnRet[i].Error # "panic") =>
    IF mainPc = "returned"
    THEN /\ DOMAIN results = DOMAIN items
         /\ \A i \in Idx(items) :
              /\ fnArg[i] = items[i]
              /\ results[i].ThreadID = items[i]
              /\ results[i].Status \in {"success", "failed"}
              /\ results[i].Resolved => results[i].Status = "success"
         /\ BulkSummary(results).total = Len0(items)
         /\ BulkSummary(results).total =
              BulkSummary(results).successful + BulkSummary(results).failed
         /\ BulkSummary(results).resolved <= BulkSummary(results).successful
    ELSE ENABLED ExecNext

\* three replies ran in parallel: the first failed, the second succeeded and
\* resolved its thread, the third succeeded without resolving
C28_Witness ==
  /\ variant = "reply"
  /\ mainPc = "returned"
  /\ Len0(items) = 3
  /\ AllDone
  /\ results[0].Status = "failed"
  /\ results[1].Status = "success" /\ results[1].Resolved
  /\ results[2].Status = "success" /\ ~results[2].Resolved
  /\ BulkSummary(results) = [total |-> 3, successful |-> 2, failed |-> 1, resolved |-> 1]

\* ------------------------------------------------------------- analyzePRs
\* analyzePRs is entered with a list of n PRs; the lists start empty
AnalyzeInit ==
  /\ ExecIdle
  /\ WaitIdle
  /\ FetchIdle
  /\ apc = "loop"
  /\ TotalPRs \in 0..MaxPRs
  /\ aI = 0
  /\ aPr = NoPR
  /\ MissingClassification = <<>>
  /\ ShouldIgnore = <<>>
  /\ InconsistentLabeling = <<>>
  /\ Summary = NoSummary

hasClassification(pr) == pr.labelClass # "none"

isDocumentation(pr) == pr.labelClass = "documentation"

\* the local shouldIgnore: a "docs:" title that is not user-facing, or an ignore
\* indicator in the title or body
shouldIgnoreOf(pr) == (pr.docsPrefix /\ ~pr.userFacing) \/ pr.indicator

\* one iteration of "for _, pr := range prs"
AnalyzeOne ==
  /\ apc = "loop"
  /\ aI < TotalPRs
  /\ \E pr \in PRs :
       /\ aPr' = pr
       /\ ShouldIgnore' =
            IF shouldIgnoreOf(pr) /\ ~pr.hasIgnore
            THEN Append(ShouldIgnore, pr.Number) ELSE ShouldIgnore
       /\ MissingClassification' =
            IF ~hasClassification(pr) /\ ~pr.hasIgnore /\ ~shouldIgnoreOf(pr)
               /\ pr.suggests
            THEN Append(MissingClassification, pr.Number)
            ELSE MissingClassification
       /\ InconsistentLabeling' =
            IF isDocumentation(pr) /\ pr.hasIgnore /\ pr.userFacing
            THEN Append(InconsistentLabeling, pr.Number)
            ELSE InconsistentLabeling
  /\ aI' = aI + 1
  /\ UNCHANGED <<apc, TotalPRs, Summary>>
  /\ UNCHANGED <<execVars, waitVars, fetchVars>>

Numbers(list) == { list[k] : k \in 1..Len(list) }

\* mutant of needsAttentionSet: the entries of the three lists are counted,
\* not the distinct PR numbers
needsAttentionEntries ==
  1..(Len(MissingClassification) + Len(ShouldIgnore) + Len(InconsistentLabeling))

\* the keys of the needsAttentionSet map
needsAttentionSet ==
  Numbers(MissingClassification) \cup Numbers(ShouldIgnore)
    \cup Numbers(InconsistentLabeling)

\* the summary after the loop; return analysis
Summarize ==
  /\ apc = "loop"
  /\ aI >= TotalPRs
  /\ LET needsAttention == Cardinality(needsAttentionSet)
     IN Summary' = [WellLabeled |-> TotalPRs - needsAttention,
                    NeedsAttention |-> needsAttention,
                    ReadyForRelease |-> (needsAttention = 0)]
  /\ apc' = "done"
  /\ UNCHANGED <<TotalPRs, aI, aPr, MissingClassification, ShouldIgnore,
                 InconsistentLabeling>>
  /\ UNCHANGED <<execVars, waitVars, fetchVars>>

AnalyzeNext ==
  \/ AnalyzeOne
  \/ Summarize

SpecAnalyze == AnalyzeInit /\ [][AnalyzeNext]_vars

\* C29: when analyzePRs is done, NeedsAttention is the number of distinct PR
\* numbers in the three lists, WellLabeled + NeedsAttention = TotalPRs and
\* ReadyForRelease holds exactly when NeedsAttention = 0; and an iteration whose
\* PR should be ignored adds nothing to MissingClassification.
C29_SummaryCountsEachPROnce ==
  /\ [](apc = "done" =>
          /\ Summary.NeedsAttention =
               Cardinality({ n \in PRNumbers :
                  \/ \E k \in 1..Len(MissingClassification) :
                       MissingClassification[k] = n
                  \/ \E k \in 1..Len(ShouldIgnore) : ShouldIgnore[k] = n
                  \/ \E k \in 1..Len(InconsistentLabeling) :
                       InconsistentLabeling[k] = n })
          /\ Summary.NeedsAttention <= TotalPRs
          /\ Summary.WellLabeled + Summary.NeedsAttention = TotalPRs
          /\ Summary.ReadyForRelease <=> (Summary.NeedsAttention = 0))
  /\ [][(aI' = aI + 1
           /\ ((aPr'.docsPrefix /\ ~aPr'.userFacing) \/ aPr'.indicator)) =>
          MissingClassification' = MissingClassification]_vars

\* the same PR number was given twice and is in two lists, and is counted once
C29_Witness ==
  /\ apc = "done"
  /\ TotalPRs = 2
  /\ Len(MissingClassification) = 1
  /\ Len(ShouldIgnore) = 1
  /\ MissingClassification[1] = ShouldIgnore[1]
  /\ Summary = [WellLabeled |-> 1, NeedsAttention |-> 1, ReadyForRelease |-> FALSE]

\* ------------------------------------------------------------- outputFetch
\* outputFetch is entered with the threads, the page-info total and the flag
FetchInit ==
  /\ ExecIdle
  /\ WaitIdle
  /\ AnalyzeIdle
  /\ fpc = "start"
  /\ Threads \in ThreadLists
  /\ includeThreads \in BOOLEAN
  /\ pageTotal \in 0..MaxThreads
  /\ fI = 1
  /\ unresolvedCount = 0
  /\ unresolvedThreads = <<>>
  /\ output = NoSection

\* "if includeThreads": enter the filter loop, or go on to the encoder
EnterThreads ==
  /\ fpc = "start"
  /\ fpc' = IF includeThreads THEN "loop" ELSE "encode"
  /\ UNCHANGED <<Threads, includeThreads, pageTotal, fI, unresolvedCount,
                 unresolvedThreads, output>>
  /\ UNCHANGED <<execVars, waitVars, analyzeVars>>

\* the threadData map built for one thread
threadDataOf(thread) == [id |-> thread.ID, isResolved |-> thread.IsResolved]

\* mutant of FilterThread: the "!thread.IsResolved" test is missing
FilterThreadKeepsResolved ==
  /\ fpc = "loop"
  /\ fI <= Len(Threads)
  /\ unresolvedCount' = unresolvedCount + 1
  /\ unresolvedThreads' = Append(unresolvedThreads, threadDataOf(Threads[fI]))
  /\ fI' = fI + 1
  /\ UNCHANGED <<fpc, Threads, includeThreads, pageTotal, output>>
  /\ UNCHANGED <<execVars, waitVars, analyzeVars>>

\* one iteration of "for _, thread := range data.Threads"
FilterThread ==
  /\ fpc = "loop"
  /\ fI <= Len(Threads)
  /\ IF ~Threads[fI].IsResolved
     THEN /\ unresolvedCount' = unresolvedCount + 1
          /\ unresolvedThreads' = Append(unresolvedThreads, threadDataOf(Threads[fI]))
     ELSE UNCHANGED <<unresolvedCount, unresolvedThreads>>
  /\ fI' = fI + 1
  /\ UNCHANGED <<fpc, Threads, includeThreads, pageTotal, output>>
  /\ UNCHANGED <<execVars, waitVars, analyzeVars>>

\* after the loop: output["reviewThreads"] = {...}
SetReviewThreads ==
  /\ fpc = "loop"
  /\ fI > Len(Threads)
  /\ output' = [present |-> TRUE, totalCount |-> pageTotal,
                unresolvedCount |-> unresolvedCount,
                unresolvedThreads |-> unresolvedThreads]
  /\ fpc' = "encode"
  /\ UNCHANGED <<Threads, includeThreads, pageTotal, fI, unresolvedCount,
                 unresolvedThreads>>
  /\ UNCHANGED <<execVars, waitVars, analyzeVars>>

\* return EncodeOutputWithCmd(cmd, output)
Encode ==
  /\ fpc = "encode"
  /\ fpc' = "done"
  /\ UNCHANGED <<Threads, includeThreads, pageTotal, fI, unresolvedCount,
                 unresolvedThreads, output>>
  /\ UNCHANGED <<execVars, waitVars, analyzeVars>>

FetchNext ==
  \/ EnterThreads
  \/ FilterThread
  \/ SetReviewThreads
  \/ Encode

SpecFetch == FetchInit /\ [][FetchNext]_vars

\* the positions in a thread list of its unresolved threads, in order
RECURSIVE UnresolvedOf(_)
UnresolvedOf(list) ==
  IF list = <<>> THEN <<>>
  ELSE IF Head(list).IsResolved THEN UnresolvedOf(Tail(list))
       ELSE <<Head(list)>> \o UnresolvedOf(Tail(list))

\* C30: when outputFetch is done, without includeThreads there is no
\* reviewThreads section; with it, unresolvedThreads is the input's unresolved
\* threads in input order and no resolved one, unresolvedCount is its length
\* and totalCount is the page-info total.
C30_UnresolvedThreadsOnly ==
  fpc = "done" =>
    IF ~includeThreads
    THEN ~output.present
    ELSE /\ output.present
         /\ Len(output.unresolvedThreads) = Len(UnresolvedOf(Threads))
         /\ \A k \in 1..Len(output.unresolvedThreads) :
              /\ ~output.unresolvedThreads[k].isResolved
              /\ output.unresolvedThreads[k].id = UnresolvedOf(Threads)[k].ID
         /\ output.unresolvedCount = Len(output.unresolvedThreads)
         /\ output.totalCount = pageTotal

\* three threads, the middle one resolved: two are listed, in input order, and
\* the page-info total differs from both counts
C30_Witness ==
  /\ fpc = "done"
  /\ includeThreads
  /\ Len(Threads) = 3
  /\ ~Threads[1].IsResolved /\ Threads[2].IsResolved /\ ~Threads[3].IsResolved
  /\ Threads[1].ID # Threads[3].ID
  /\ output.unresolvedCount = 2
  /\ output.unresolvedThreads[1].id = Threads[1].ID
  /\ output.unresolvedThreads[2].id = Threads[3].ID
  /\ output.totalCount = 1

====
